---- MODULE Spec2Model ----
(***************************************************************************)
(* Model of the chat node of COE427_HW1/chat_app/python:                   *)
(*   app_no_rti.py  MainAppNoRTI  (session / routing orchestrator)         *)
(*   mock_app.py    DDSApp        (UDP multicast transport + SQLite log)   *)
(* One local node is modelled in full: its caller (GUI) thread, which runs *)
(* join / update_user / leave / send step by step, and one receive thread  *)
(* per transport instance.  Remote peers run the same send/publish code    *)
(* and appear as the envelopes they put on the shared multicast address.   *)
(***************************************************************************)
EXTENDS Integers, Sequences, FiniteSets, TLC

\* ------------------------------------------------------------------ bounds
MaxCmds       == 3   \* commands the consumer issues
MaxRemote     == 2   \* datagrams remote peers put on the wire
MaxEvents     == 4   \* commands and remote datagrams together
MaxTransports == 2   \* DDSApp instances the node creates
MaxClock      == 0   \* last reading of time.time(), in ticks
MaxStored     == 2   \* rows chat.db holds when the node starts
PastTicks     == 2   \* latest time stamp of those rows, in ticks
MaxWord       == 2   \* characters in a stored text or a search query

TicksPerSec == 2     \* model resolution of the float clock: int(ts) = ts \div 2

\* ------------------------------------------------------------- input sets
LocalUsers  == {"alice"}
RemoteUsers == {"bob"}
Groups      == {"services", "ops"}
FirstNames  == {"Al"}
LastNames   == {"Li"}

None == "None"                       \* Python None for the str-typed fields

OrEmpty(x) == IF x = None THEN "" ELSE x        \* (x or "")

Get(obj, k, d) == IF k \in DOMAIN obj THEN obj[k] ELSE d     \* dict.get(k, d)

EmptyDict == [x \in {} |-> x]                  \* {}

\* ------------------------------------------------------------------- text
\* A Python str travelling as message text: either the JSON encoding of a
\* dict (json.dumps) or a string that json.loads does not turn into a dict.
Dumps(obj) == [json |-> obj]
Raw(s)     == [raw |-> s]

NoneObj == [isNone |-> TRUE]

parse_payload(text) ==
    IF "json" \in DOMAIN text THEN text.json ELSE NoneObj

Truthy(obj) == obj # NoneObj

IsPresence(obj) == Truthy(obj) /\ Get(obj, "_type", None) = "presence"
IsChat(obj)     == Truthy(obj) /\ Get(obj, "_type", None) = "chat"

PRESENCE_JOIN  == [_type |-> "presence", action |-> "join"]
PRESENCE_LEAVE == [_type |-> "presence", action |-> "leave"]

\* _publish_control: dict(payload) enriched with the session's names
Enriched(payload, fn, ln) ==
    [_type |-> payload._type, action |-> payload.action,
     first_name |-> fn, last_name |-> ln]

\* send(): the chat payload
ChatPayload(from, to, grp, message) ==
    [_type |-> "chat", from |-> from, to |-> to, group |-> grp, text |-> message]

\* publish(): the datagram
Envelope(room, username, text, ts) ==
    [room |-> room, username |-> username, text |-> text, ts |-> ts]

\* a datagram json.loads cannot decode
Garbage == [garbage |-> TRUE]

\* ----------------------------------------------------------- gui events
EvJoined(u, g, fn, ln) ==
    [type |-> "user_joined", user |-> u, group |-> g, first_name |-> fn, last_name |-> ln]
EvLeft(u) == [type |-> "user_left", user |-> u]
EvMessage(u, dest, message) ==
    [type |-> "message_received", user |-> u, destination |-> dest, message |-> message]

\* ------------------------------------------------------------------ store
Row(ts, direction, from_user, grp, text) ==
    [ts |-> ts, direction |-> direction, from_user |-> from_user,
     first_name |-> "", last_name |-> "", grp |-> grp, text |-> text]

\* mutant: the INSERT replaces the latest row
SavedOverLast(st, row) == IF st = <<>> THEN <<row>> ELSE [st EXCEPT ![Len(st)] = row]

\* _store: INSERT INTO messages(...) VALUES(...); commit
Saved(st, row) == Append(st, row)

ReplayLimit == 200

\* mutant: the time stamp enters the key untruncated
IntTsExact(ts) == ts

IntTs(ts) == ts \div TicksPerSec                      \* int(ts)

\* SELECT ... WHERE grp=? ORDER BY ts DESC LIMIT n; rows.reverse()
\* (equal timestamps come back in insertion order)
RowBefore(st, i, j) == st[i].ts < st[j].ts \/ (st[i].ts = st[j].ts /\ i < j)

GroupIdx(st, g) == {i \in 1..Len(st) : st[i].grp = g}

Chronological(st, g) ==
    LET idx == GroupIdx(st, g)
        rank(i) == Cardinality({j \in idx : RowBefore(st, j, i)})
    IN  [k \in 1..Cardinality(idx) |-> st[CHOOSE i \in idx : rank(i) = k - 1]]

\* mutant: the LIMIT keeps the oldest rows
OldestRows(st, g, limit) ==
    LET all == Chronological(st, g)
    IN  IF Len(all) <= limit THEN all ELSE SubSeq(all, 1, limit)

RecentRows(st, g, limit) ==
    LET all == Chronological(st, g)
        n   == Len(all)
    IN  IF n <= limit THEN all ELSE SubSeq(all, n - limit + 1, n)

\* mutant: the key leaves the time stamp out
ReplayKeyNoTime(row) ==
    <<IF row.from_user = "" THEN "?" ELSE row.from_user, 0, row.text>>

\* replay dedup key: (author or "?", str(int(ts)), text or "")
ReplayKey(row) ==
    <<IF row.from_user = "" THEN "?" ELSE row.from_user, IntTs(row.ts), row.text>>

\* mutant: the filter lets every destination through
AddressedAny(dest, grp, usr) == TRUE

\* the chat filter shared by replay and live classification
Addressed(dest, grp, usr) == dest = grp \/ dest = OrEmpty(usr)

\* mutant: a replayed chat is attributed to the author of its row
ReplayRowByRowAuthor(row, grp, usr) ==
    LET obj == parse_payload(row.text)
    IN  IF IsPresence(obj) THEN <<>>
        ELSE IF IsChat(obj) THEN
            IF Addressed(Get(obj, "to", grp), grp, usr)
            THEN <<EvMessage(row.from_user, Get(obj, "to", grp), Get(obj, "text", Raw("")))>>
            ELSE <<>>
        ELSE <<EvMessage(row.from_user, grp, row.text)>>

\* mutant: an unseen row is forwarded twice
ReplayRowTwice(row, grp, usr) ==
    <<EvMessage(row.from_user, grp, row.text), EvMessage(row.from_user, grp, row.text)>>

\* events one unseen row forwards during replay
ReplayRow(row, grp, usr) ==
    LET obj    == parse_payload(row.text)
        author == IF row.from_user = "" THEN "?" ELSE row.from_user
    IN  IF IsPresence(obj) THEN <<>>
        ELSE IF IsChat(obj) THEN
            LET dest == Get(obj, "to", grp)
            IN  IF Addressed(dest, grp, usr)
                THEN <<EvMessage(Get(obj, "from", author), dest, Get(obj, "text", Raw("")))>>
                ELSE <<>>
        ELSE <<EvMessage(author, grp, row.text)>>

\* the whole walk of join() lines 70-85: the events the rows `rws`
\* forward, oldest first, when the keys in `sn` were seen before
RECURSIVE Walk(_, _, _, _)
Walk(rws, sn, grp, usr) ==
    IF rws = <<>> THEN <<>>
    ELSE IF ReplayKey(Head(rws)) \in sn THEN Walk(Tail(rws), sn, grp, usr)
    ELSE ReplayRow(Head(rws), grp, usr)
         \o Walk(Tail(rws), sn \cup {ReplayKey(Head(rws))}, grp, usr)

\* ------------------------------------------------------------- transports
NoMsg == [none |-> TRUE]

\* a DDSApp that has not been constructed
Unused ==
    [room |-> None, username |-> None, sock |-> "none", stop |-> FALSE,
     db |-> "none", rx |-> "none", msg |-> NoMsg, queue |-> <<>>, txn |-> <<>>, nth |-> 0]

\* DDSApp.__init__: no socket, no thread, the connection to chat.db open
Constructed(username, room) ==
    [room |-> room, username |-> username, sock |-> "none", stop |-> FALSE,
     db |-> "open", rx |-> "none", msg |-> NoMsg, queue |-> <<>>, txn |-> <<>>, nth |-> 0]

\* mutant: start() starts a thread whenever it is called
startAlways(tr) ==
    [tr EXCEPT !.sock = IF @ = "none" THEN "open" ELSE @, !.rx = "recv", !.nth = @ + 1]

\* DDSApp.start(): the socket is made unless there is one, the receive
\* thread is started unless there is one (nth counts the threads started)
start(tr) ==
    [tr EXCEPT !.sock = IF @ = "none" THEN "open" ELSE @,
               !.rx   = IF tr.nth = 0 THEN "recv" ELSE @,
               !.nth  = IF tr.nth = 0 THEN 1 ELSE @]

\* DDSApp.__init__ followed by start()
Started(username, room) == start(Constructed(username, room))

\* mutant: close() closes the store handle only
ClosedLeavesOpen(t) == [t EXCEPT !.db = "closed"]

\* mutant: close() sets the stop flag but leaves the socket open
ClosedKeepsSocket(t) == [t EXCEPT !.stop = TRUE, !.db = "closed"]

\* mutant: closing a socket that is already closed fails
ClosedRaisesWhenClosed(t) == [t EXCEPT !.stop = TRUE,
                                       !.sock = IF t.sock = "open" THEN "closed" ELSE "raised",
                                       !.db = "closed",
                                       !.queue = <<>>]

\* DDSApp.close()
Closed(t) == [t EXCEPT !.stop = TRUE,
                       !.sock = IF t.sock = "open" THEN "closed" ELSE t.sock,
                       !.db = "closed",
                       !.queue = <<>>,
                       !.txn = <<>>]

TIds == 1..MaxTransports

VARIABLES
    user, group, first_name, last_name,   \* MainAppNoRTI session fields
    backend,        \* MainAppNoRTI.backend: a transport id, 0 for None
    online,         \* MainAppNoRTI._online: username -> names
    trs,            \* the DDSApp instances created so far
    ntrs,           \* how many were created
    store,          \* table messages of chat.db, in insertion order
    now,            \* last value time.time() returned
    gui,            \* calls made on the consumer (gui.*), in order
    wire,           \* datagrams this node handed to sendto, in order
    pc,             \* caller thread: position inside the running command
    ret,            \* caller thread: where publish returns to
    ptext,          \* caller thread: text being published
    arg,            \* caller thread: new_group of update_user
    rows,           \* caller thread: replay rows still to walk
    seen,           \* caller thread: replay dedup set
    cmd,            \* consumer: the command issued last ("<name>:ignored": it returned at a guard)
    wmark,          \* consumer: Len(wire) when that command was issued
    ncmd,           \* commands issued so far
    nremote,        \* remote datagrams so far
    faulty,         \* environment: storage, network and peers may misbehave
    flog            \* failures that happened (store write, sendto, decode, raise), in order

vars == <<user, group, first_name, last_name, backend, online, trs, ntrs, store,
          now, gui, wire, pc, ret, ptext, arg, rows, seen, cmd, wmark, ncmd, nremote,
          faulty, flog>>

session == <<user, group, first_name, last_name>>
locals  == <<ret, ptext, arg, rows, seen, cmd, wmark>>
fvars   == <<faulty, flog>>

Init ==
    /\ user = None /\ group = None /\ first_name = "" /\ last_name = ""
    /\ backend = 0
    /\ online = EmptyDict
    /\ trs = [t \in TIds |-> Unused]
    /\ ntrs = 0
    /\ store = <<>>
    /\ now = 0
    /\ gui = <<>>
    /\ wire = <<>>
    /\ pc = "idle" /\ ret = "idle" /\ ptext = Raw("") /\ arg = None
    /\ rows = <<>> /\ seen = {}
    /\ cmd = "none" /\ wmark = 0
    /\ ncmd = 0 /\ nremote = 0
    /\ faulty = FALSE /\ flog = <<>>

\* time.time(): the clock does not go back; it moves on while the model's
\* time lasts
Clock == {t \in now..(now + 1) : t = now \/ t <= MaxClock}

\* mutant: the loop hands the datagram to the socket twice
DeliverTwice(ts, env) ==
    [t \in TIds |-> IF ts[t].sock = "open"
                    THEN [ts[t] EXCEPT !.queue = Append(Append(@, env), env)]
                    ELSE ts[t]]

\* a datagram sent to the multicast address reaches every bound local socket
Deliver(ts, env) ==
    [t \in TIds |-> IF ts[t].sock = "open"
                    THEN [ts[t] EXCEPT !.queue = Append(@, env)]
                    ELSE ts[t]]

\* mutant: the pop empties the dict
WithoutAll(f, k) == [x \in {} |-> f[x]]

\* dict without one key
Without(f, k) == [x \in DOMAIN f \ {k} |-> f[x]]
\* dict with one key set
With(f, k, v) == [x \in DOMAIN f \cup {k} |-> IF x = k THEN v ELSE f[x]]

Names(fn, ln) == [first_name |-> fn, last_name |-> ln]

\* ---------------------------------------------------------- classification
\* _on_message, presence join: the check of line 172
JoinAdds(author, onl) == author \notin DOMAIN onl
\* mutant: the local user's own join is announced like any other
JoinAnnouncedAlways(author, usr) == TRUE

\* _on_message, presence join: the check of line 176
JoinAnnounced(author, usr) == author # OrEmpty(usr)
\* _on_message, presence leave: the check of line 179
LeaveRemoves(author, onl, usr) == author \in DOMAIN onl /\ author # OrEmpty(usr)

\* _on_message up to the point where it touches _online: what it decides.
\* "add" / "remove" continue in RxAct; "forward" and "return" finish at once.
Classify(msg, onl, grp, usr) ==
    LET obj == parse_payload(msg.text)
    IN  IF IsPresence(obj) THEN
            LET act == Get(obj, "action", None)
            IN  IF act = "join" /\ JoinAdds(msg.username, onl) THEN "add"
                ELSE IF act = "leave" /\ LeaveRemoves(msg.username, onl, usr) THEN "remove"
                ELSE "return"
        ELSE IF IsChat(obj) THEN
            IF Addressed(Get(obj, "to", OrEmpty(grp)), grp, usr) THEN "forward" ELSE "return"
        ELSE "fallback"

\* mutant: author and destination change places
ChatEventSwapped(msg, grp) ==
    LET obj == parse_payload(msg.text)
    IN  EvMessage(Get(obj, "to", OrEmpty(grp)), Get(obj, "from", "?"), Get(obj, "text", Raw("")))

\* the gui.message_received call of the chat branch (lines 185-189)
ChatEvent(msg, grp) ==
    LET obj == parse_payload(msg.text)
    IN  EvMessage(Get(obj, "from", "?"), Get(obj, "to", OrEmpty(grp)), Get(obj, "text", Raw("")))

\* mutant: the fallback does not name the sender
FallbackEventUnknownAuthor(msg, grp) == EvMessage("?", OrEmpty(grp), msg.text)

\* the gui.message_received call of the fallback (line 193)
FallbackEvent(msg, grp) == EvMessage(msg.username, OrEmpty(grp), msg.text)

\* ------------------------------------------------------------ failures
\* what flog records
StoreFailed(row) == [what |-> "store", row |-> row]     \* _store raised, swallowed
SendFailed(e)    == [what |-> "sendto", env |-> e]      \* sendto raised
DecodeError(t)   == [what |-> "decode", t |-> t]        \* json.loads raised, swallowed
RaisedTo(c)      == [what |-> "raise", cmd |-> c]       \* an exception left handler c
ClosedAgain(t)   == [what |-> "close", t |-> t]         \* close() on a closed transport
StartedAgain(t)  == [what |-> "start", t |-> t]         \* start() on a started transport

\* a write to chat.db succeeds unless the storage fails
WriteOutcomes == IF faulty THEN {TRUE, FALSE} ELSE {TRUE}

\* ------------------------------------------------------ caller thread
\* mutant: the row is not tagged with the transport's room
OutRowUntagged(ts, tr, text) == Row(ts, "out", tr.username, "", text)

\* publish() lines 119-123: the row _store writes
OutRow(ts, tr, text) == Row(ts, "out", tr.username, tr.room, text)

\* mutant: publish() stores the row and returns without sending
AfterStoreReturns(written, retpc) == retpc

\* mutant: a failed write ends publish() before the send
AfterStoreAborts(written, retpc) == IF written THEN "pub_send" ELSE retpc

\* publish() lines 120-125: `except Exception: pass`, then on to the send
AfterStore(written, retpc) == "pub_send"

\* the try/except of leave() lines 141-145 around its publish
Swallows(retpc) == retpc = "l_close"

\* _publish_control / send up to and including publish()'s _store of the
\* 'out' row; the sendto follows in PubSend
PublishStore(text, retpc) ==
    /\ \E t \in Clock, ok \in WriteOutcomes :
        LET row     == OutRow(t, trs[backend], text)
            written == ok /\ trs[backend].db = "open"
        IN  /\ now' = t
            /\ store' = IF written THEN Saved(store, row) ELSE store
            /\ flog' = IF written THEN flog ELSE Append(flog, StoreFailed(row))
            /\ pc' = AfterStore(written, retpc)
    /\ ptext' = text
    /\ ret' = retpc

\* publish(): the datagram is built and handed to sendto; the multicast
\* loop (IP_MULTICAST_LOOP) brings it back to the node's own socket
PubSend ==
    /\ pc = "pub_send"
    /\ \E t \in Clock :
        LET env == Envelope(trs[backend].room, trs[backend].username, ptext, t)
        IN  /\ now' = t
            /\ wire' = Append(wire, env)
            /\ trs' = Deliver(trs, env)
    /\ pc' = ret
    /\ ret' = "idle" /\ ptext' = Raw("")
    /\ UNCHANGED <<cmd, wmark, session, backend, online, ntrs, store, gui, arg,
                   rows, seen, ncmd, nremote, fvars>>

\* publish() line 140: sendto raises OSError (no route to the multicast
\* group, interface down); only leave() catches it
PubSendFails ==
    /\ pc = "pub_send" /\ faulty
    /\ LET env == Envelope(trs[backend].room, trs[backend].username, ptext, now)
       IN  flog' = IF Swallows(ret)
                   THEN Append(flog, SendFailed(env))
                   ELSE flog \o <<SendFailed(env), RaisedTo(cmd)>>
    /\ pc' = IF Swallows(ret) THEN ret ELSE "idle"
    /\ ret' = "idle" /\ ptext' = Raw("") /\ arg' = None
    /\ UNCHANGED <<cmd, wmark, session, backend, online, trs, ntrs, store, now, gui, wire,
                   rows, seen, ncmd, nremote, faulty>>

\* join(): lines 49-56
Join(u, g, fn, ln) ==
    /\ pc = "idle" /\ backend = 0
    /\ ncmd < MaxCmds /\ ncmd + nremote < MaxEvents /\ ntrs < MaxTransports
    /\ ncmd' = ncmd + 1
    /\ user' = u /\ group' = g /\ first_name' = fn /\ last_name' = ln
    /\ ntrs' = ntrs + 1
    /\ trs' = [trs EXCEPT ![ntrs + 1] = Started(u, g)]
    /\ backend' = ntrs + 1
    /\ pc' = "j_select"
    /\ cmd' = "join" /\ wmark' = Len(wire)
    /\ UNCHANGED <<online, store, now, gui, wire, ret, ptext, arg, rows, seen, nremote, fvars>>

AfterSelect == IF pc = "j_select" THEN "j_replay" ELSE "u_replay"
AfterReplay == IF pc \in {"j_select", "j_replay"} THEN "j_pub" ELSE "u_pub"

\* join() lines 59-69, update_user() lines 108-118: the SELECT
Select ==
    /\ pc \in {"j_select", "u_select"}
    /\ LET r == RecentRows(store, group, ReplayLimit)
       IN  /\ rows' = r
           /\ pc' = IF r = <<>> THEN AfterReplay ELSE AfterSelect
    /\ seen' = {}
    /\ UNCHANGED <<cmd, wmark, session, backend, online, trs, ntrs, store, now, gui, wire,
                   ret, ptext, arg, ncmd, nremote, fvars>>

\* join() lines 70-85, update_user() lines 119-134: one row of the walk
Replay ==
    /\ pc \in {"j_replay", "u_replay"}
    /\ rows # <<>>
    /\ LET row  == Head(rows)
           last == Tail(rows) = <<>>
       IN  IF ReplayKey(row) \in seen
           THEN /\ seen' = IF last THEN {} ELSE seen
                /\ gui' = gui
           ELSE /\ seen' = IF last THEN {} ELSE seen \cup {ReplayKey(row)}
                /\ gui' = gui \o ReplayRow(row, group, user)
    /\ rows' = Tail(rows)
    /\ pc' = IF Tail(rows) = <<>> THEN AfterReplay ELSE pc
    /\ UNCHANGED <<cmd, wmark, session, backend, online, trs, ntrs, store, now, wire,
                   ret, ptext, arg, ncmd, nremote, fvars>>

\* join() line 90
JoinAnnounce ==
    /\ pc = "j_pub"
    /\ PublishStore(Dumps(Enriched(PRESENCE_JOIN, first_name, last_name)), "j_add")
    /\ UNCHANGED <<cmd, wmark, session, backend, online, trs, ntrs, gui, wire, arg, rows, seen,
                   ncmd, nremote, faulty>>

\* join() lines 91-92
JoinAddSelf ==
    /\ pc = "j_add"
    /\ online' = With(online, user, Names(first_name, last_name))
    /\ gui' = Append(gui, EvJoined(user, group, first_name, last_name))
    /\ pc' = "idle"
    /\ UNCHANGED <<session, backend, trs, ntrs, store, now, wire, locals, ncmd, nremote, fvars>>

\* mutant: the test of line 97 is missing
UpdateIgnoredUnlessSame(g) == backend = 0 \/ OrEmpty(user) = ""

\* update_user() lines 95-98: the two early returns
UpdateIgnored(g) == backend = 0 \/ OrEmpty(user) = "" \/ g = group

\* update_user(): the guards of lines 95-98, then line 100
UpdateUser(g) ==
    /\ pc = "idle" /\ ncmd < MaxCmds /\ ncmd + nremote < MaxEvents
    /\ ncmd' = ncmd + 1
    /\ IF UpdateIgnored(g)
       THEN UNCHANGED <<now, store, ptext, ret, pc, arg, flog>>
       ELSE /\ ntrs < MaxTransports
            /\ PublishStore(Dumps(Enriched(PRESENCE_LEAVE, first_name, last_name)), "u_close")
            /\ arg' = g
    /\ cmd' = (IF UpdateIgnored(g) THEN "update_user:ignored" ELSE "update_user")
    /\ wmark' = Len(wire)
    /\ UNCHANGED <<session, backend, online, trs, ntrs, gui, wire, rows, seen, nremote, faulty>>

\* update_user() lines 101-102
UpdateClose ==
    /\ pc = "u_close"
    /\ trs' = [trs EXCEPT ![backend] = Closed(@)]
    /\ online' = EmptyDict
    /\ pc' = "u_open"
    /\ UNCHANGED <<session, backend, ntrs, store, now, gui, wire, locals, ncmd, nremote, fvars>>

\* update_user() lines 104-106
UpdateOpen ==
    /\ pc = "u_open"
    /\ group' = arg
    /\ ntrs' = ntrs + 1
    /\ trs' = [trs EXCEPT ![ntrs + 1] = Started(user, arg)]
    /\ backend' = ntrs + 1
    /\ arg' = None
    /\ pc' = "u_select"
    /\ UNCHANGED <<cmd, wmark, user, first_name, last_name, online, store, now, gui, wire,
                   ret, ptext, rows, seen, ncmd, nremote, fvars>>

\* update_user() line 138
UpdateAnnounce ==
    /\ pc = "u_pub"
    /\ PublishStore(Dumps(Enriched(PRESENCE_JOIN, first_name, last_name)), "idle")
    /\ UNCHANGED <<cmd, wmark, session, backend, online, trs, ntrs, gui, wire, arg, rows, seen,
                   ncmd, nremote, faulty>>

\* leave(): lines 141-145 when there is a backend, else the finally block
Leave ==
    /\ pc = "idle" /\ ncmd < MaxCmds /\ ncmd + nremote < MaxEvents
    /\ ncmd' = ncmd + 1
    /\ IF backend # 0
       THEN /\ PublishStore(Dumps(Enriched(PRESENCE_LEAVE, first_name, last_name)), "l_close")
            /\ UNCHANGED online
       ELSE /\ online' = EmptyDict
            /\ UNCHANGED <<now, store, ptext, ret, pc, flog>>
    /\ cmd' = (IF backend # 0 THEN "leave" ELSE "leave:ignored") /\ wmark' = Len(wire)
    /\ UNCHANGED <<session, backend, trs, ntrs, gui, wire, arg, rows, seen, nremote, faulty>>

\* leave() lines 146-151
LeaveClose ==
    /\ pc = "l_close"
    /\ trs' = [trs EXCEPT ![backend] = Closed(@)]
    /\ backend' = 0
    /\ online' = EmptyDict
    /\ pc' = "idle"
    /\ UNCHANGED <<session, ntrs, store, now, gui, wire, locals, ncmd, nremote, fvars>>

Destinations == Groups \cup LocalUsers \cup RemoteUsers
Messages     == {Raw("hi"), Raw("")}

\* mutant: send() tests the message only
SendIgnoredIfEmpty(message) == message = Raw("")

\* send() line 157: `if not self.backend or not message: return`
SendIgnored(message) == backend = 0 \/ message = Raw("")

\* send(); past the guard, self.backend.publish on None raises AttributeError
Send(destination, message) ==
    /\ pc = "idle" /\ ncmd < MaxCmds /\ ncmd + nremote < MaxEvents
    /\ ncmd' = ncmd + 1
    /\ IF SendIgnored(message)
       THEN UNCHANGED <<now, store, ptext, ret, pc, flog>>
       ELSE IF backend = 0
       THEN /\ flog' = Append(flog, RaisedTo("send"))
            /\ UNCHANGED <<now, store, ptext, ret, pc>>
       ELSE PublishStore(Dumps(ChatPayload(user, destination, group, message)), "idle")
    /\ cmd' = (IF SendIgnored(message) THEN "send:ignored" ELSE "send")
    /\ wmark' = Len(wire)
    /\ UNCHANGED <<session, backend, online, trs, ntrs, gui, wire, arg, rows, seen, nremote,
                   faulty>>

\* list_users()
list_users ==
    LET dom == DOMAIN online
        lt(a, b) == a # b /\ \E i \in 1..3 : a = <<"alice", "bob", "carol">>[i]
                                           /\ \A j \in 1..i : b # <<"alice", "bob", "carol">>[j]
        rank(u) == Cardinality({v \in dom : lt(v, u)})
    IN  [k \in 1..Cardinality(dom) |->
            LET u == CHOOSE v \in dom : rank(v) = k - 1
            IN  <<u, OrEmpty(group), online[u].first_name, online[u].last_name>>]

\* ------------------------------------------------------------ remote peers
\* what a peer that joined room `room` as `u` puts on the wire with
\* join / leave / send
RemoteTexts(u, room) ==
    {Dumps(Enriched(PRESENCE_JOIN, "Bo", "Bo")), Dumps(Enriched(PRESENCE_LEAVE, "Bo", "Bo"))}
    \cup {Dumps(ChatPayload(u, d, room, Raw("hi"))) : d \in {room} \cup LocalUsers \cup RemoteUsers}

RemoteEnvelopes ==
    UNION {{Envelope(room, u, text, ts) : ts \in 0..MaxClock, text \in RemoteTexts(u, room)} :
            room \in Groups, u \in RemoteUsers}

\* ---------------------------------------------------------- receive thread
AfterCallback(t) == IF t.stop THEN "done" ELSE "recv"

\* _rx_loop line 146: json.loads raises on a malformed or truncated datagram
DecodeFails(env) == env = Garbage

\* mutant: the decode error ends the loop
AfterDecodeErrorDies(t) == [t EXCEPT !.rx = "done"]

\* _rx_loop lines 162-163: `except Exception: continue`
AfterDecodeError(t) == t

\* mutant: every room is taken
OtherRoomNever(env, room) == FALSE

\* _rx_loop lines 147-148: the envelope is for another room
OtherRoom(env, room) == env.room # room

\* _rx_loop line 154: the 'in' row unless the author is this node
StoresIn(author, username) == author # "" /\ author # username

\* _rx_loop lines 156: the row _store writes
InRow(env, tr) == Row(env.ts, "in", env.username, tr.room, env.text)

\* _rx_loop lines 146-158 for the datagram env that recvfrom returned to
\* the thread of transport t; q is what the socket still holds
Received(t, env, q) ==
    IF DecodeFails(env) THEN
        /\ trs' = [trs EXCEPT ![t] = AfterDecodeError([@ EXCEPT !.queue = q])]
        /\ flog' = Append(flog, DecodeError(t))
        /\ store' = store
    ELSE IF OtherRoom(env, trs[t].room) THEN
        /\ trs' = [trs EXCEPT ![t].queue = q]
        /\ UNCHANGED <<store, flog>>
    ELSE \E ok \in WriteOutcomes :
        LET wants   == StoresIn(env.username, trs[t].username)
            written == wants /\ ok /\ trs[t].db = "open"
        IN  /\ trs' = [trs EXCEPT ![t] = [@ EXCEPT !.queue = q, !.msg = env, !.rx = "cb"]]
            /\ store' = IF written THEN Saved(store, InRow(env, trs[t])) ELSE store
            /\ flog' = IF wants /\ ~written
                       THEN Append(flog, StoreFailed(InRow(env, trs[t])))
                       ELSE flog

\* recvfrom returns a datagram this node sent itself (multicast loop)
RxRecv(t) ==
    /\ trs[t].rx = "recv" /\ trs[t].sock = "open" /\ trs[t].queue # <<>>
    /\ Received(t, Head(trs[t].queue), Tail(trs[t].queue))
    /\ UNCHANGED <<session, backend, online, ntrs, now, gui, wire, pc, locals,
                   ncmd, nremote, faulty>>

\* recvfrom returns a datagram a remote peer sent: datagrams of different
\* senders are not ordered, so a peer's datagram arrives when it is read
RxRecvRemote(t, env) ==
    /\ trs[t].rx = "recv" /\ trs[t].sock = "open"
    /\ nremote < MaxRemote /\ ncmd + nremote < MaxEvents
    /\ nremote' = nremote + 1
    /\ Received(t, env, trs[t].queue)
    /\ UNCHANGED <<session, backend, online, ntrs, now, gui, wire, pc, locals, ncmd, faulty>>

\* _rx_loop lines 160-161 into _on_message lines 166-193, up to its first
\* access to _online
RxCallback(t) ==
    /\ trs[t].rx = "cb"
    /\ LET m == trs[t].msg
           d == Classify(m, online, group, user)
       IN  /\ gui' = IF d = "forward" THEN Append(gui, ChatEvent(m, group))
                     ELSE IF d = "fallback" THEN Append(gui, FallbackEvent(m, group))
                     ELSE gui
           /\ trs' = [trs EXCEPT ![t] =
                IF d \in {"add", "remove"}
                THEN [trs[t] EXCEPT !.rx = d]
                ELSE [trs[t] EXCEPT !.rx = AfterCallback(trs[t]), !.msg = NoMsg]]
    /\ UNCHANGED <<session, backend, online, ntrs, store, now, wire, pc, locals, ncmd, nremote,
                   fvars>>

\* _on_message lines 173-177 (add) and 180-181 (remove)
RxAct(t) ==
    /\ trs[t].rx \in {"add", "remove"}
    /\ LET m   == trs[t].msg
           obj == parse_payload(m.text)
           fn  == Get(obj, "first_name", "")
           ln  == Get(obj, "last_name", "")
       IN  IF trs[t].rx = "add"
           THEN /\ online' = With(online, m.username, Names(fn, ln))
                /\ gui' = IF JoinAnnounced(m.username, user)
                          THEN Append(gui, EvJoined(m.username, OrEmpty(group), fn, ln))
                          ELSE gui
           ELSE /\ gui' = Append(gui, EvLeft(m.username))
                /\ online' = Without(online, m.username)
    /\ trs' = [trs EXCEPT ![t] = [trs[t] EXCEPT !.rx = AfterCallback(trs[t]), !.msg = NoMsg]]
    /\ UNCHANGED <<session, backend, ntrs, store, now, wire, pc, locals, ncmd, nremote, fvars>>

\* _rx_loop: recvfrom on the closed socket raises, the loop sees _stop and ends
RxExit(t) ==
    /\ trs[t].rx = "recv" /\ trs[t].stop
    /\ trs' = [trs EXCEPT ![t].rx = "done"]
    /\ UNCHANGED <<session, backend, online, ntrs, store, now, gui, wire, pc, locals,
                   ncmd, nremote, fvars>>

\* POSIX: closing the socket does not end a recvfrom another thread is
\* already blocked in; that call keeps waiting for a datagram
RxStaysBlocked(t) ==
    /\ faulty
    /\ trs[t].rx = "recv" /\ trs[t].stop
    /\ trs' = [trs EXCEPT ![t].rx = "blocked"]
    /\ UNCHANGED <<session, backend, online, ntrs, store, now, gui, wire, pc, locals,
                   ncmd, nremote, fvars>>

\* close() called once more on a closed transport
CloseAgain(t) ==
    /\ faulty
    /\ trs[t].stop
    /\ \A i \in 1..Len(flog) : flog[i] # ClosedAgain(t)
    /\ trs' = [trs EXCEPT ![t] = Closed(@)]
    /\ flog' = Append(flog, ClosedAgain(t))
    /\ UNCHANGED <<session, backend, online, ntrs, store, now, gui, wire, pc, locals,
                   ncmd, nremote, faulty>>

\* ------------------------------------------------------------------- Next
Next ==
    \/ \E u \in LocalUsers, g \in Groups, fn \in FirstNames, ln \in LastNames : Join(u, g, fn, ln)
    \/ Select
    \/ Replay
    \/ JoinAnnounce
    \/ JoinAddSelf
    \/ \E g \in Groups : UpdateUser(g)
    \/ UpdateClose
    \/ UpdateOpen
    \/ UpdateAnnounce
    \/ Leave
    \/ LeaveClose
    \/ \E d \in Destinations, m \in Messages : Send(d, m)
    \/ PubSend
    \/ \E t \in TIds : RxRecv(t)
    \/ \E t \in TIds, env \in RemoteEnvelopes : RxRecvRemote(t, env)
    \/ \E t \in TIds : RxCallback(t)
    \/ \E t \in TIds : RxAct(t)
    \/ \E t \in TIds : RxExit(t)

Spec == Init /\ [][Next]_vars

\* ---- the same node in an environment that misbehaves: storage and sendto
\* may fail, datagrams may be malformed or anonymous, close() may be repeated
OddEnvelopes ==
    {Garbage} \cup {Envelope(room, "", Raw("hi"), ts) : room \in Groups, ts \in 0..MaxClock}

InitFaults ==
    /\ user = None /\ group = None /\ first_name = "" /\ last_name = ""
    /\ backend = 0
    /\ online = EmptyDict
    /\ trs = [t \in TIds |-> Unused]
    /\ ntrs = 0
    /\ store = <<>>
    /\ now = 0
    /\ gui = <<>>
    /\ wire = <<>>
    /\ pc = "idle" /\ ret = "idle" /\ ptext = Raw("") /\ arg = None
    /\ rows = <<>> /\ seen = {}
    /\ cmd = "none" /\ wmark = 0
    /\ ncmd = 1 /\ nremote = 0      \* one command less than in Spec
    /\ faulty = TRUE /\ flog = <<>>

NextFaults ==
    \/ Next
    \/ PubSendFails
    \/ \E t \in TIds, env \in OddEnvelopes : RxRecvRemote(t, env)
    \/ \E t \in TIds : RxStaysBlocked(t)
    \/ \E t \in TIds : CloseAgain(t)

SpecFaults == InitFaults /\ [][NextFaults]_vars

\* =================================================================== claims
\* the receive thread of transport t runs (part of) _on_message in this step
LiveStep(t) == trs[t].rx \in {"cb", "add", "remove"} /\ trs'[t].rx # trs[t].rx

\* the caller thread is inside join()/update_user() and its replay has
\* at least one more event to forward
ReplayUnfinished ==
    \/ /\ pc \in {"j_select", "u_select"}
       /\ Walk(RecentRows(store, group, ReplayLimit), {}, group, user) # <<>>
    \/ /\ pc \in {"j_replay", "u_replay"}
       /\ Walk(rows, seen, group, user) # <<>>

\* C1: during join() and update_group() the consumer receives no live event
\* (one forwarded by _on_message) before the replay of that join/group
\* change has forwarded its last event.
C1_NoLiveEventBeforeReplayEnds ==
    [][(\E t \in TIds : LiveStep(t) /\ gui' # gui) => ~ReplayUnfinished]_vars

\* the chat payload the receive thread of t holds, and its destination
LiveObj(t) == parse_payload(trs[t].msg.text)
LiveTo(t)  == Get(LiveObj(t), "to", OrEmpty(group))

\* C2: the live classification path forwards a chat payload only if its `to`
\* equals the node's current group or its current username; a chat whose
\* `to` is neither and whose `from` is not the local user is never forwarded.
C2_LiveChatOnlyIfAddressed ==
    [][\A t \in TIds :
        (LiveStep(t) /\ trs[t].rx = "cb" /\ IsChat(LiveObj(t)))
        => /\ gui' # gui => (LiveTo(t) = group \/ LiveTo(t) = user)
           /\ (LiveTo(t) # group /\ LiveTo(t) # user /\ Get(LiveObj(t), "from", "?") # user)
              => gui' = gui]_vars

\* a chat from bob addressed to bob was received in the current room and
\* classified, and the consumer got nothing addressed to bob
C2_Witness ==
    /\ backend # 0 /\ trs[backend].rx = "recv" /\ trs[backend].room = group
    /\ \E i \in 1..Len(store) :
        /\ store[i].direction = "in" /\ store[i].grp = group
        /\ IsChat(parse_payload(store[i].text))
        /\ parse_payload(store[i].text).to = "bob"
    /\ nremote = 1
    /\ \A k \in 1..Len(gui) : gui[k].type = "message_received" => gui[k].destination # "bob"

\* ---- single-process loopback: one join, then send() and receive steps only
NextLoopback ==
    \/ \E u \in LocalUsers, g \in Groups, fn \in FirstNames, ln \in LastNames : Join(u, g, fn, ln)
    \/ Select
    \/ JoinAnnounce
    \/ JoinAddSelf
    \/ \E d \in Destinations, m \in Messages : Send(d, m)
    \/ PubSend
    \/ \E t \in TIds : RxRecv(t)
    \/ \E t \in TIds : RxCallback(t)
    \/ \E t \in TIds : RxAct(t)

SpecLoopback == Init /\ [][NextLoopback]_vars

\* a datagram carrying a chat whose destination is the node's own group or
\* its own username
OwnAddressedChat(env) ==
    /\ IsChat(parse_payload(env.text))
    /\ parse_payload(env.text).to \in {group, user}

AsEvent(env) ==
    EvMessage(user, parse_payload(env.text).to, parse_payload(env.text).text)

IsMessageEvent(e) == e.type = "message_received"

\* datagrams the node's receive threads still hold or have queued
Undelivered ==
    LET t == backend
    IN  IF t = 0 THEN <<>>
        ELSE (IF trs[t].rx = "cb" THEN <<trs[t].msg>> ELSE <<>>) \o trs[t].queue

\* C3: in loopback every chat the node publishes with destination equal to its
\* own group or username is forwarded by the live path exactly once: what the
\* consumer got, followed by what is still on its way, is exactly what was
\* published, one event per datagram and in order.
C3_LoopbackExactlyOnce ==
    LET published == SelectSeq(wire, OwnAddressedChat)
        pending   == SelectSeq(Undelivered, OwnAddressedChat)
        forwarded == SelectSeq(gui, IsMessageEvent)
    IN  forwarded \o [k \in 1..Len(pending) |-> AsEvent(pending[k])]
            = [k \in 1..Len(published) |-> AsEvent(published[k])]

\* two chats to the own group and username were published and both arrived
C3_Witness ==
    /\ backend # 0 /\ Undelivered = <<>> /\ pc = "idle"
    /\ Len(SelectSeq(wire, OwnAddressedChat)) = 2
    /\ Len(SelectSeq(gui, IsMessageEvent)) = 2
    /\ \E k \in 1..Len(gui) : IsMessageEvent(gui[k]) /\ gui[k].destination = user

\* what bob's send("services", "hi") puts on the wire once bob joined "services"
BobHi(ts) ==
    Envelope("services", "bob", Dumps(ChatPayload("bob", "services", "services", Raw("hi"))), ts)

\* C4: alice joined to "services", bob's chat to "services" with text "hi" is
\* delivered: the classification forwards message_received("bob","services","hi").
C4_BobHiForwarded ==
    [][\A t \in TIds :
        (/\ LiveStep(t) /\ trs[t].rx = "cb"
         /\ \E ts \in 0..MaxClock : trs[t].msg = BobHi(ts)
         /\ backend = t /\ user = "alice" /\ group = "services")
        => gui' = Append(gui, EvMessage("bob", "services", Raw("hi")))]_vars

\* alice's join is over, bob's chat came in afterwards and the only message
\* the consumer got is that chat
C4_Witness ==
    /\ user = "alice" /\ group = "services" /\ backend = 1 /\ ntrs = 1
    /\ pc = "idle" /\ cmd = "join" /\ trs[1].rx = "recv" /\ nremote = 1
    /\ \E ts \in 0..MaxClock : store[Len(store)] = Row(ts, "in", "bob", "services", BobHi(ts).text)
    /\ SelectSeq(gui, IsMessageEvent) = <<EvMessage("bob", "services", Raw("hi"))>>

\* C5: when join() returns, online contains exactly the local user, for every
\* interleaving of the receive thread with join().
C5_OnlineIsSelfWhenJoinReturns ==
    [][(cmd = "join" /\ pc = "j_add" /\ pc' = "idle") => DOMAIN online' = {user}]_vars

\* C6: when update_group(new_group) with a different group returns, online
\* contains exactly the local user.
C6_OnlineIsSelfWhenUpdateReturns ==
    [][(cmd = "update_user" /\ pc # "idle" /\ pc' = "idle") => DOMAIN online' = {user}]_vars

\* datagrams sent since the last command was issued
Since == SubSeq(wire, wmark + 1, Len(wire))

IsControl(env, payload, room) ==
    /\ env.room = room /\ env.username = user
    /\ env.text = Dumps(Enriched(payload, first_name, last_name))

C9_SelfPresenceIgnored ==
    [][\A t \in TIds :
        (LiveStep(t) /\ IsPresence(LiveObj(t)) /\ trs[t].msg.username = user)
        => online' = online /\ gui' = gui]_vars

\* C10: online never contains stale entries; in particular it is empty after
\* leave() has returned and stays empty while the node is NotJoined.
C10_OnlineEmptyWhileNotJoined ==
    (backend = 0 /\ pc = "idle") => DOMAIN online = {}

\* C11: update_group(g) with g equal to the current group is ignored: no
\* presence envelope is broadcast, the transport is neither closed nor
\* recreated, nothing is replayed, no store row is written, and username,
\* group and online stay as they are.
C11_SameGroupUpdateIgnored ==
    [][\A g \in Groups : (UpdateUser(g) /\ backend # 0 /\ g = group) =>
        /\ wire' = wire /\ pc' = "idle"
        /\ trs' = trs /\ ntrs' = ntrs /\ backend' = backend
        /\ gui' = gui /\ rows' = rows
        /\ store' = store
        /\ session' = session /\ online' = online]_vars

\* joined as alice, then update_user with the group alice is in
C11_Witness ==
    /\ cmd = "update_user:ignored" /\ pc = "idle"
    /\ backend = 1 /\ ntrs = 1 /\ trs[1].sock = "open" /\ trs[1].room = group
    /\ user = "alice" /\ "alice" \in DOMAIN online

\* C12: leave(), send() and update_group() issued while NotJoined are no-ops:
\* nothing is broadcast, no store row is written, no event is forwarded, no
\* error is raised, and the node stays NotJoined.
C12_NotJoinedCommandsAreNoOps ==
    [][(/\ backend = 0
        /\ \/ Leave
           \/ \E d \in Destinations, m \in Messages : Send(d, m)
           \/ \E g \in Groups : UpdateUser(g))
       => /\ wire' = wire /\ store' = store /\ gui' = gui
          /\ flog' = flog
          /\ backend' = 0 /\ pc' = "idle" /\ trs' = trs /\ ntrs' = ntrs]_vars

\* join, leave, then a send of "hi" that went nowhere
C12_Witness ==
    /\ cmd = "send:ignored" /\ backend = 0 /\ pc = "idle"
    /\ ntrs = 1 /\ trs[1].stop /\ Len(wire) = 2 /\ ncmd = 3

\* every datagram a receive thread can be handed by the network
Datagrams == RemoteEnvelopes \cup OddEnvelopes

\* what _rx_loop owes the datagram env it has just read on transport t: an
\* envelope of the transport's room is now held for one callback; anything
\* else left no trace
Took(t, env) ==
    IF env # Garbage /\ env.room = trs[t].room
    THEN trs'[t].rx = "cb" /\ trs'[t].msg = env
    ELSE /\ trs'[t].rx = "recv" /\ trs'[t].msg = NoMsg
         /\ store' = store /\ gui' = gui /\ online' = online

\* C13: the transport invokes on_message exactly once for each decoded
\* inbound envelope of its own room and never for an envelope of another
\* room, which is dropped without a store record.
C13_CallbackOncePerRoomEnvelope ==
    [][\A t \in TIds :
        /\ \A env \in Datagrams : RxRecvRemote(t, env) => Took(t, env)
        /\ RxRecv(t) => Took(t, Head(trs[t].queue))
        \* a callback is pending only for a datagram just read ...
        /\ (trs[t].rx # "cb" /\ trs'[t].rx = "cb")
            => (RxRecv(t) \/ \E env \in Datagrams : RxRecvRemote(t, env))
        \* ... and stays pending, for that datagram, until the one call is made
        /\ trs[t].rx = "cb"
            => \/ trs'[t].rx = "cb" /\ trs'[t].msg = trs[t].msg
               \/ RxCallback(t) /\ trs'[t].rx # "cb"]_vars

\* of two datagrams from peers one was for the other room and left nothing,
\* the other was stored and handed to the callback, which has returned
C13_Witness ==
    /\ nremote = 2 /\ flog = <<>> /\ backend # 0 /\ trs[backend].rx = "recv"
    /\ Len(SelectSeq(store, LAMBDA r : r.direction = "in")) = 1
    /\ \E k \in 1..Len(gui) : gui[k].type = "message_received" /\ gui[k].user = "bob"
    /\ \A k \in 1..Len(gui) : gui[k].type = "message_received" => gui[k].user # ""

\* rows written so far carry the direction the claim gives them
RowsByDirection ==
    \A i \in 1..Len(store) :
        /\ store[i].direction = "in" => store[i].from_user # user
        /\ store[i].direction = "out" => store[i].from_user = user

\* the 'in' row is written exactly when the author is not this node
StoredIffForeign(t, env) ==
    /\ env.username # trs[t].username => store' = Append(store, InRow(env, trs[t]))
    /\ env.username = trs[t].username => store' = store

\* C14: for every received envelope of the transport's room the loop stores
\* an 'in' record if and only if the envelope's username differs from the
\* node's own, and in both cases invokes the callback; every 'in' row has a
\* foreign from_user and every 'out' row the node's own.
C14_InRowIffForeign ==
    [][/\ \A t \in TIds :
            /\ \A env \in Datagrams \ {Garbage} :
                    (RxRecvRemote(t, env) /\ env.room = trs[t].room /\ flog' = flog)
                    => StoredIffForeign(t, env) /\ trs'[t].rx = "cb"
            /\ (RxRecv(t) /\ Head(trs[t].queue).room = trs[t].room /\ flog' = flog)
                    => StoredIffForeign(t, Head(trs[t].queue)) /\ trs'[t].rx = "cb"
       /\ RowsByDirection']_vars

\* what identifies a publish in the store and on the network
EnvKey(env) == <<env.room, env.username, env.text>>
RowKey(row) == <<row.grp, row.from_user, row.text>>

IsOutRowOf(row, k) == row.direction = "out" /\ RowKey(row) = k

HasOutRow(k) == \E i \in 1..Len(store) : IsOutRowOf(store[i], k)

\* the publish the caller thread is in, between its _store and its sendto
PendingKeys ==
    IF pc = "pub_send" THEN {<<trs[backend].room, trs[backend].username, ptext>>} ELSE {}

\* the claim as stated: every envelope handed to the network, every envelope
\* whose send failed, and the one about to be sent have their 'out' row
C15_EverySentEnvelopeHasOutRow ==
    /\ \A k \in 1..Len(wire) : HasOutRow(EnvKey(wire[k]))
    /\ \A j \in 1..Len(flog) : flog[j].what = "sendto" => HasOutRow(EnvKey(flog[j].env))
    /\ \A k \in PendingKeys : HasOutRow(k)

OutRows(k)      == Cardinality({i \in 1..Len(store) : IsOutRowOf(store[i], k)})
FailedWrites(k) == Cardinality({j \in 1..Len(flog) :
                        flog[j].what = "store" /\ IsOutRowOf(flog[j].row, k)})
Sent(k)         == Cardinality({i \in 1..Len(wire) : EnvKey(wire[i]) = k})
FailedSends(k)  == Cardinality({j \in 1..Len(flog) :
                        flog[j].what = "sendto" /\ EnvKey(flog[j].env) = k})
Pending(k)      == IF k \in PendingKeys THEN 1 ELSE 0

PublishKeys ==
    {EnvKey(wire[i]) : i \in 1..Len(wire)}
    \cup {RowKey(store[i]) : i \in {j \in 1..Len(store) : store[j].direction = "out"}}
    \cup {EnvKey(flog[i].env) : i \in {j \in 1..Len(flog) : flog[j].what = "sendto"}}
    \cup {RowKey(flog[i].row) : i \in {j \in 1..Len(flog) : flog[j].what = "store"
                                                           /\ flog[j].row.direction = "out"}}
    \cup PendingKeys

\* C15 (amended): publish() attempts the 'out' write, tagged with the node's
\* room, in the calling thread before the datagram is sent; each envelope on
\* the network has its 'out' row unless the write of that row failed, and a
\* publish whose send fails keeps the row it wrote: write attempts (rows and
\* failed writes) and send attempts (sent, failed, pending) match one to one.
C15_OutRowUnlessWriteFailed ==
    \A k \in PublishKeys :
        OutRows(k) + FailedWrites(k) = Sent(k) + FailedSends(k) + Pending(k)

\* a send failed after its row was written, and no write has failed
C15_Witness ==
    /\ \E j \in 1..Len(flog) : flog[j].what = "sendto" /\ HasOutRow(EnvKey(flog[j].env))
    /\ \A j \in 1..Len(flog) : flog[j].what # "store"
    /\ Len(wire) >= 1

\* C16: close() on a transport that was closed before changes nothing and
\* raises nothing, at whatever point of the caller's and the receive thread's
\* work it is called: close(); close() leaves the state close() leaves.
C16_SecondCloseIsNoOp ==
    [][ /\ \A t \in TIds : Closed(Closed(trs[t])) = Closed(trs[t])
        /\ \A t \in TIds : CloseAgain(t) =>
               /\ trs' = trs
               /\ flog' = Append(flog, ClosedAgain(t))
               /\ UNCHANGED <<store, gui, online, wire, pc, backend>> ]_vars

\* a transport closed twice, its receive thread ended
C16_Witness ==
    \E t \in TIds :
        /\ \E i \in 1..Len(flog) : flog[i] = ClosedAgain(t)
        /\ trs[t].stop /\ trs[t].sock = "closed" /\ trs[t].db = "closed"
        /\ trs[t].rx = "done"

\* what the receive thread of transport t can do without a datagram arriving
RxStep(t) == RxRecv(t) \/ RxCallback(t) \/ RxAct(t) \/ RxExit(t)

\* C17: once close() was called on a started transport its receive loop is on
\* its way out: it has ended, or its thread has a step to take that does not
\* wait for the network (so that it ends whether or not datagrams arrive).
C17_ClosedLoopTerminates ==
    \A t \in TIds : trs[t].stop => (trs[t].rx = "done" \/ ENABLED RxStep(t))

\* the receive thread of transport t has met a datagram it could not decode
HadDecodeError(t) == \E i \in 1..Len(flog) : flog[i] = DecodeError(t)

\* the loop's treatment of a decoded envelope of its own room: callback
\* always; 'in' row by the rule of line 154 when the write does not fail
Processed(t, env) ==
    /\ trs'[t].rx = "cb" /\ trs'[t].msg = env
    /\ (StoresIn(env.username, trs[t].username) /\ flog' = flog)
           => store' = Append(store, InRow(env, trs[t]))

\* C18: a datagram that cannot be decoded leaves the receive thread in its
\* loop with nothing stored and nothing delivered, and every envelope of the
\* transport's room that arrives after a decode error, while the transport is
\* open, is still handed to the callback and stored as the loop stores any
\* envelope.
C18_DecodeErrorKeepsLoop ==
    [][\A t \in TIds :
          /\ RxRecvRemote(t, Garbage) =>
                /\ trs' = trs
                /\ trs'[t].rx = "recv"
                /\ UNCHANGED <<store, gui, online>>
          /\ HadDecodeError(t) =>
                /\ \A env \in Datagrams \ {Garbage} :
                       (RxRecvRemote(t, env) /\ env.room = trs[t].room) => Processed(t, env)
                /\ (RxRecv(t) /\ Head(trs[t].queue).room = trs[t].room)
                       => Processed(t, Head(trs[t].queue)) ]_vars

\* the only failure so far is a decode error, and the datagram that came after
\* it, a peer's envelope, is stored and with the callback
C18_Witness ==
    \E t \in TIds :
        /\ flog = <<DecodeError(t)>>
        /\ nremote = 2
        /\ trs[t].rx = "cb" /\ trs[t].msg \in RemoteEnvelopes
        /\ store # <<>> /\ store[Len(store)] = InRow(trs[t].msg, trs[t])

\* this step is a write to the store that failed
WriteFailsNow == Len(flog') = Len(flog) + 1 /\ flog'[Len(flog')].what = "store"

FailedRow == flog'[Len(flog')].row

\* C19: a failed store write does not stop the message: publish() whose 'out'
\* write failed goes on to its sendto with the same text, and what leaves
\* publish() there is the envelope on the network (or a failure of the send
\* itself); the receive loop whose 'in' write failed goes on to the callback
\* with the envelope it received, and the callback runs.
C19_StoreFailureDeliversAnyway ==
    [][ /\ (WriteFailsNow /\ FailedRow.direction = "out") =>
               /\ pc' = "pub_send" /\ ptext' = FailedRow.text
               /\ backend' = backend /\ trs' = trs /\ wire' = wire
        /\ (WriteFailsNow /\ FailedRow.direction = "in") =>
               \E t \in TIds :
                   /\ trs[t].rx = "recv" /\ trs'[t].rx = "cb"
                   /\ InRow(trs'[t].msg, trs[t]) = FailedRow
        /\ (pc = "pub_send" /\ pc' # "pub_send") => (PubSend \/ PubSendFails)
        /\ \A t \in TIds : (trs[t].rx = "cb" /\ trs'[t].rx # "cb") => RxCallback(t) ]_vars

\* nothing could be stored, yet the node's envelope is on the network and a
\* peer's message whose 'in' write failed has reached the consumer
C19_Witness ==
    /\ store = <<>>
    /\ \E i \in 1..Len(flog) : /\ flog[i].what = "store" /\ flog[i].row.direction = "out"
                                /\ \E k \in 1..Len(wire) : EnvKey(wire[k]) = RowKey(flog[i].row)
    /\ \E i \in 1..Len(flog) : /\ flog[i].what = "store" /\ flog[i].row.direction = "in"
                                /\ \E k \in 1..Len(gui) :
                                       /\ gui[k].type = "message_received"
                                       /\ gui[k].user = flog[i].row.from_user

\* C20: no failure inside the core reaches the consumer as an exception: no
\* command of the session (join, update_user, leave, send) ever raises.
C20_NothingRaisesToConsumer ==
    \A i \in 1..Len(flog) : flog[i].what # "raise"

\* ------------------------------------ the store handle, statement by statement
\* DDSApp.db is one sqlite3 connection (check_same_thread=False) used by the
\* caller thread (publish) and by the transport's receive thread (_rx_loop).
\* txn holds the rows INSERTed on the connection and not yet committed.

\* _store lines 105-108: db.execute("INSERT ...")
Inserted(tr, row) == [tr EXCEPT !.txn = Append(@, row)]

\* _store line 109: db.commit() ends the connection's open transaction,
\* whichever thread's statements it holds
Committed(tr) == [tr EXCEPT !.txn = <<>>]

\* the node after join("alice", "services", "Al", "Li") on an empty chat.db,
\* its own announcement received back
InitStore ==
    LET tr   == Started("alice", "services")
        text == Dumps(Enriched(PRESENCE_JOIN, "Al", "Li"))
    IN  /\ user = "alice" /\ group = "services" /\ first_name = "Al" /\ last_name = "Li"
        /\ backend = 1
        /\ online = [u \in {"alice"} |-> [first_name |-> "Al", last_name |-> "Li"]]
        /\ trs = [t \in TIds |-> IF t = 1 THEN tr ELSE Unused]
        /\ ntrs = 1
        /\ store = <<OutRow(0, tr, text)>>
        /\ now = 0
        /\ gui = <<EvJoined("alice", "services", "Al", "Li")>>
        /\ wire = <<Envelope("services", "alice", text, 0)>>
        /\ pc = "idle" /\ ret = "idle" /\ ptext = Raw("") /\ arg = None
        /\ rows = <<>> /\ seen = {}
        /\ cmd = "join" /\ wmark = 0
        /\ ncmd = 1 /\ nremote = 0
        /\ faulty = FALSE /\ flog = <<>>

\* send() lines 157-160 into publish() up to the INSERT of the 'out' row
SendInsert(destination, message) ==
    /\ pc = "idle" /\ ncmd < MaxCmds /\ ncmd + nremote < MaxEvents
    /\ ~SendIgnored(message)
    /\ ncmd' = ncmd + 1 /\ cmd' = "send"
    /\ \E t \in Clock :
        LET text == Dumps(ChatPayload(user, destination, group, message))
        IN  /\ now' = t
            /\ trs' = [trs EXCEPT ![backend] = Inserted(@, OutRow(t, trs[backend], text))]
            /\ ptext' = text
    /\ pc' = "pub_commit" /\ ret' = "idle"
    /\ UNCHANGED <<wmark, session, backend, online, ntrs, store, gui, wire, arg,
                   rows, seen, nremote, fvars>>

\* publish(): the commit of _store, then on to the sendto
PubCommit ==
    /\ pc = "pub_commit"
    /\ store' = store \o trs[backend].txn
    /\ trs' = [trs EXCEPT ![backend] = Committed(@)]
    /\ pc' = "pub_send"
    /\ UNCHANGED <<cmd, wmark, session, backend, online, ntrs, now, gui, wire, ret, ptext,
                   arg, rows, seen, ncmd, nremote, fvars>>

\* _rx_loop lines 145-156 for a peer's datagram, up to the INSERT of the
\* 'in' row
RxInsert(t, env) ==
    /\ trs[t].rx = "recv" /\ trs[t].sock = "open"
    /\ nremote < MaxRemote /\ ncmd + nremote < MaxEvents
    /\ nremote' = nremote + 1
    /\ trs' = IF OtherRoom(env, trs[t].room) THEN trs
              ELSE IF StoresIn(env.username, trs[t].username)
              THEN [trs EXCEPT ![t] = [Inserted(@, InRow(env, trs[t]))
                                          EXCEPT !.msg = env, !.rx = "commit"]]
              ELSE [trs EXCEPT ![t] = [@ EXCEPT !.msg = env, !.rx = "cb"]]
    /\ UNCHANGED <<session, backend, online, ntrs, store, now, gui, wire, pc, locals,
                   ncmd, fvars>>

\* _rx_loop: the commit of _store, then on to the callback
RxCommit(t) ==
    /\ trs[t].rx = "commit"
    /\ store' = store \o trs[t].txn
    /\ trs' = [trs EXCEPT ![t] = [Committed(@) EXCEPT !.rx = "cb"]]
    /\ UNCHANGED <<session, backend, online, ntrs, now, gui, wire, pc, locals,
                   ncmd, nremote, fvars>>

NextStore ==
    \/ \E d \in Destinations, m \in Messages : SendInsert(d, m)
    \/ PubCommit
    \/ PubSend
    \/ \E t \in TIds, env \in RemoteEnvelopes : RxInsert(t, env)
    \/ \E t \in TIds : RxCommit(t)
    \/ \E t \in TIds : RxRecv(t)
    \/ \E t \in TIds : RxCallback(t)
    \/ \E t \in TIds : RxAct(t)

SpecStore == InitStore /\ [][NextStore]_vars

\* C21: the write-then-commit sequence on a store handle is serialized: no
\* thread executes its INSERT on a connection while another thread is
\* between its own INSERT and its commit on that connection.
C21_WriteThenCommitSerialized ==
    \A t \in TIds : ~(backend = t /\ pc = "pub_commit" /\ trs[t].rx = "commit")

\* this step is taken by the caller thread (a command starts or goes on)
CallerStep == pc' # pc \/ ncmd' # ncmd

\* the receive thread of transport t has tested _online (lines 172, 179) and
\* has not yet written it (lines 175, 181)
BetweenCheckAndWrite(t) == trs[t].rx \in {"add", "remove"}

\* C22: the receive thread's check-then-add/remove on the online map is
\* atomic with respect to the caller thread: while a receive thread is
\* between its test of the map and its write, no caller-thread step (join,
\* update_user, leave) writes or clears the map.
C22_OnlineWritesExcludeEachOther ==
    [][\A t \in TIds : (BetweenCheckAndWrite(t) /\ CallerStep) => online' = online]_vars

\* ------------------------------------------- replay over a chat.db with a past
\* chat.db outlives the process and is shared by every node started in the
\* same directory (db_path "chat.db"): when the node starts it may hold rows
\* of either direction and author, written by this user's and other users'
\* nodes, inserted in any order of their time stamps.
StoredTexts(u, g) == {Dumps(ChatPayload(u, g, g, Raw("hi"))), Raw("yo")}

StoredRows ==
    UNION {{Row(ts, d, u, g, text) : ts \in 0..PastTicks, d \in {"in", "out"},
                                     text \in StoredTexts(u, g)} :
            u \in LocalUsers \cup RemoteUsers, g \in Groups}

Stores == UNION {[1..n -> StoredRows] : n \in 0..MaxStored}

InitReplay ==
    /\ user = None /\ group = None /\ first_name = "" /\ last_name = ""
    /\ backend = 0
    /\ online = EmptyDict
    /\ trs = [t \in TIds |-> Unused]
    /\ ntrs = 0
    /\ store \in Stores
    /\ now = PastTicks
    /\ gui = <<>>
    /\ wire = <<>>
    /\ pc = "idle" /\ ret = "idle" /\ ptext = Raw("") /\ arg = None
    /\ rows = <<>> /\ seen = {}
    /\ cmd = "none" /\ wmark = 0
    /\ ncmd = 0 /\ nremote = 0
    /\ faulty = FALSE /\ flog = <<>>

\* join, update_user and leave with the node's own traffic only
NextReplay ==
    \/ \E u \in LocalUsers, g \in Groups, fn \in FirstNames, ln \in LastNames : Join(u, g, fn, ln)
    \/ Select
    \/ Replay
    \/ JoinAnnounce
    \/ JoinAddSelf
    \/ \E g \in Groups : UpdateUser(g)
    \/ UpdateClose
    \/ UpdateOpen
    \/ UpdateAnnounce
    \/ Leave
    \/ LeaveClose
    \/ PubSend
    \/ \E t \in TIds : RxRecv(t)
    \/ \E t \in TIds : RxCallback(t)
    \/ \E t \in TIds : RxAct(t)
    \/ \E t \in TIds : RxExit(t)

SpecReplay == InitReplay /\ [][NextReplay]_vars

\* the history events the consumer got (no chat is sent or received live in
\* SpecReplay: every message_received comes from a replay)
HistoryEvents == SelectSeq(gui, IsMessageEvent)

\* the second of two joins to the same group has finished its replay
SecondReplayDone ==
    /\ cmd = "join" /\ ntrs = 2 /\ trs[1].room = trs[2].room
    /\ pc \notin {"j_select", "j_replay"}

\* the window a replay for the current group reads
Window == RecentRows(store, group, ReplayLimit)

Alphabet == {"h", "H", "_"}

Words == UNION {[1..n -> Alphabet] : n \in 0..MaxWord}

\* sqlite compares ASCII letters without regard to case
Lower(c) == IF c = "H" THEN "h" ELSE c

\* sqlite's LIKE: % stands for any run of characters, _ for any one
\* character, every other character for itself
RECURSIVE Like(_, _)
Like(p, t) ==
    IF p = <<>> THEN t = <<>>
    ELSE IF Head(p) = "%" THEN Like(Tail(p), t) \/ (t # <<>> /\ Like(p, Tail(t)))
    ELSE IF t = <<>> THEN FALSE
    ELSE IF Head(p) = "_" THEN Like(Tail(p), Tail(t))
    ELSE Lower(Head(p)) = Lower(Head(t)) /\ Like(Tail(p), Tail(t))

\* search() line 85: f"%{query}%"
LikePattern(query) == <<"%">> \o query \o <<"%">>

\* WHERE grp=? AND text LIKE ?
MatchIdx(st, g, query) ==
    {i \in 1..Len(st) : st[i].grp = g /\ Like(LikePattern(query), st[i].text.raw)}

\* ORDER BY ts DESC LIMIT ?; rows.reverse()
SearchRows(st, g, query, limit) ==
    LET idx     == MatchIdx(st, g, query)
        rank(i) == Cardinality({j \in idx : RowBefore(st, j, i)})
        all     == [k \in 1..Cardinality(idx) |-> st[CHOOSE i \in idx : rank(i) = k - 1]]
        n       == Len(all)
    IN  IF n <= limit THEN all ELSE SubSeq(all, n - limit + 1, n)

QueryRows ==
    {Row(ts, d[1], d[2], g, Raw(w)) :
        ts \in 0..1, d \in {<<"out", "alice">>, <<"in", "bob">>}, g \in Groups, w \in Words}

QueryStores == UNION {[1..n -> QueryRows] : n \in 0..MaxStored}

Limits == 0..MaxStored

\* a call of the store with its arguments
QueryCall(op, g, query, limit) == [op |-> op, grp |-> g, query |-> query, limit |-> limit]

InitQuery ==
    /\ user = None /\ group = None /\ first_name = "" /\ last_name = ""
    /\ backend = 0
    /\ online = EmptyDict
    /\ trs = [t \in TIds |-> Unused]
    /\ ntrs = 0
    /\ store \in QueryStores
    /\ now = 1
    /\ gui = <<>>
    /\ wire = <<>>
    /\ pc = "idle" /\ ret = "idle" /\ ptext = Raw("") /\ arg = None
    /\ rows = <<>> /\ seen = {}
    /\ cmd = QueryCall("none", None, <<>>, 0) /\ wmark = 0
    /\ ncmd = 0 /\ nremote = 0
    /\ faulty = FALSE /\ flog = <<>>

\* MessageStore.recent(grp, limit)
recent(g, limit) ==
    /\ ncmd = 0 /\ ncmd' = 1
    /\ rows' = RecentRows(store, g, limit)
    /\ cmd' = QueryCall("recent", g, <<>>, limit)
    /\ UNCHANGED <<session, backend, online, trs, ntrs, store, now, gui, wire, pc, ret, ptext,
                   arg, seen, wmark, nremote, fvars>>

\* search_history.main: MessageStore.search(grp, query, limit)
search(g, query, limit) ==
    /\ ncmd = 0 /\ ncmd' = 1
    /\ rows' = SearchRows(store, g, query, limit)
    /\ cmd' = QueryCall("search", g, query, limit)
    /\ UNCHANGED <<session, backend, online, trs, ntrs, store, now, gui, wire, pc, ret, ptext,
                   arg, seen, wmark, nremote, fvars>>

NextQuery ==
    \/ \E g \in Groups, limit \in Limits : recent(g, limit)
    \/ \E g \in Groups, query \in Words, limit \in Limits : search(g, query, limit)

SpecQuery == InitQuery /\ [][NextQuery]_vars

\* text contains the substring q, letters compared without regard to case
Contains(text, q) ==
    \E o \in 0..(Len(text) - Len(q)) : \A k \in 1..Len(q) : Lower(text[o + k]) = Lower(q[k])

\* res is, oldest first, the min(limit, number of rows) latest of the rows
\* of st with index in idx
IsLatestOf(res, st, idx, limit) ==
    \E S \in SUBSET idx :
        /\ Cardinality(S) = (IF Cardinality(idx) <= limit THEN Cardinality(idx) ELSE limit)
        /\ \A i \in S, j \in idx \ S : st[j].ts <= st[i].ts
        /\ Len(res) = Cardinality(S)
        /\ \E f \in [1..Len(res) -> S] :
               /\ \A k, l \in 1..Len(res) : k # l => f[k] # f[l]
               /\ \A k \in 1..Len(res) : res[k] = st[f[k]]
        /\ \A k \in 1..(Len(res) - 1) : res[k].ts <= res[k + 1].ts

\* C24: search(group, substring, limit) returns exactly the rows of the
\* group whose text contains the substring, letters compared without regard
\* to case: the limit most recent of them, oldest first, and no row of
\* another group.
C24_SearchIsSubstringMatch ==
    cmd.op = "search" =>
        IsLatestOf(rows, store,
                   {i \in 1..Len(store) : /\ store[i].grp = cmd.grp
                                           /\ Contains(store[i].text.raw, cmd.query)},
                   cmd.limit)

\* C25: recent(group, limit) returns rows of that group only, oldest first,
\* and exactly the min(limit, number of rows of the group) rows with the
\* greatest time stamps.
C25_RecentIsLatestOfGroup ==
    cmd.op = "recent" =>
        /\ IsLatestOf(rows, store, GroupIdx(store, cmd.grp), cmd.limit)
        /\ \A k \in 1..Len(rows) : rows[k].grp = cmd.grp

\* the group's newer row was inserted before its older one; limit 1 returns
\* the newer row alone
C25_Witness ==
    /\ cmd.op = "recent" /\ cmd.limit = 1
    /\ Len(store) = 2
    /\ store[1].grp = cmd.grp /\ store[2].grp = cmd.grp
    /\ store[1].ts > store[2].ts
    /\ rows = <<store[1]>>

\* C26: the store is an append-only log: whatever the node does (publish,
\* receive, replay, close, join, update_user, leave, with or without
\* failures), the rows it held stay as they were, in place, new rows come
\* after them, and every row carries one group.
C26_StoreOnlyGrows ==
    [][ /\ Len(store') >= Len(store)
        /\ SubSeq(store', 1, Len(store)) = store
        /\ \A i \in 1..Len(store') : store'[i].grp \in Groups ]_vars

\* rows of both directions and both groups, written through two transports
\* of which one is closed
C26_Witness ==
    /\ \E i, j \in 1..Len(store) : store[i].direction = "in" /\ store[j].direction = "out"
    /\ \E i, j \in 1..Len(store) : store[i].grp # store[j].grp
    /\ \E t \in TIds : trs[t].db = "closed"
    /\ Len(store) >= 4

\* ------------------------------------------------------- start(), repeated
\* start() called once more on a transport that was started, while it runs
\* or after its close()
StartAgain(t) ==
    /\ trs[t].nth > 0
    /\ \A i \in 1..Len(flog) : flog[i] # StartedAgain(t)
    /\ trs' = [trs EXCEPT ![t] = start(@)]
    /\ flog' = Append(flog, StartedAgain(t))
    /\ UNCHANGED <<session, backend, online, ntrs, store, now, gui, wire, pc, locals,
                   ncmd, nremote, faulty>>

\* one session (join, send, leave) during which start() may be repeated
NextStart ==
    \/ NextLoopback
    \/ Leave
    \/ LeaveClose
    \/ \E t \in TIds : RxExit(t)
    \/ \E t \in TIds : StartAgain(t)

SpecStart == Init /\ [][NextStart]_vars

\* C27: a transport has one receive loop: start() on a transport that was
\* started, running or closed, starts no second thread and changes nothing
\* else, however often it is called.
C27_OneReceiveLoop ==
    [][ /\ \A t \in TIds : trs'[t].nth <= 1 /\ (trs'[t].rx = "none" <=> trs'[t].nth = 0)
        /\ \A t \in TIds : start(start(trs[t])) = start(trs[t])
        /\ \A t \in TIds : StartAgain(t) => trs' = trs ]_vars

\* start() was repeated on a transport whose loop is handling a datagram
C27_Witness ==
    \E t \in TIds :
        /\ \E i \in 1..Len(flog) : flog[i] = StartedAgain(t)
        /\ trs[t].nth = 1 /\ trs[t].rx = "cb" /\ ~trs[t].stop

\* transports that were started and on which close() was not called
OpenTransports == {t \in TIds : trs[t].nth > 0 /\ ~trs[t].stop}

\* C28: the orchestrator holds at most one open transport, the one `backend`
\* names; it holds none while not joined; and a publish runs on a transport
\* on which close() was not called.
C28_OneOpenTransportPerSession ==
    /\ Cardinality(OpenTransports) <= 1
    /\ backend = 0 => OpenTransports = {}
    /\ backend # 0 => OpenTransports \subseteq {backend}
    /\ pc = "pub_send" => (backend \in OpenTransports /\ trs[backend].sock = "open")

\* update_user has replaced the transport: the old one is closed, the new
\* one is open and publishing the announcement
C28_Witness ==
    /\ ntrs = 2 /\ backend = 2 /\ cmd = "update_user"
    /\ trs[1].stop /\ OpenTransports = {2}
    /\ pc = "pub_send"

\* the first join has finished its replay
FirstReplayDone ==
    /\ cmd = "join" /\ ntrs = 1
    /\ pc \notin {"j_select", "j_replay"}

\* rows i and j of chat.db are one chat message of the current group:
\* i the 'out' row its sender's publish wrote, j the 'in' row a receiver's
\* loop wrote with the envelope's ts, which was taken after the 'out' row's
SameMessageTwice(i, j) ==
    /\ store[i].direction = "out" /\ store[j].direction = "in"
    /\ store[i].from_user = store[j].from_user
    /\ store[i].text = store[j].text
    /\ IsChat(parse_payload(store[i].text))
    /\ store[i].grp = group /\ store[j].grp = group
    /\ store[i].ts <= store[j].ts

\* how often the replay forwarded the message of row i
TimesForwarded(i) ==
    Cardinality({k \in 1..Len(HistoryEvents) :
                    <<HistoryEvents[k]>> = ReplayRow(store[i], group, user)})

\* rows i and j are the only rows of the current group that replay as this
\* message (a third row would be another message with the same content, or
\* another receipt of it, and adds events of its own)
OnlyCopies(i, j) ==
    \A k \in 1..Len(store) :
        (store[k].grp = group /\ ReplayRow(store[k], group, user) = ReplayRow(store[i], group, user))
            => k \in {i, j}

\* the claim as stated: whatever the two time stamps, the message is
\* forwarded once
C29_InOutPairForwardedOnce ==
    FirstReplayDone =>
        \A i, j \in 1..Len(store) : SameMessageTwice(i, j) => TimesForwarded(i) = 1

\* C29 (amended): the replay collapses the 'out' and the 'in' row of one
\* message (the only two rows the store holds of it), and forwards it once,
\* when their time stamps lie in the same integer second; when the second changed between the two stamps both rows
\* are forwarded and the consumer gets the message twice.
C29_InOutPairCollapsedWithinSecond ==
    FirstReplayDone =>
        \A i, j \in 1..Len(store) : (SameMessageTwice(i, j) /\ OnlyCopies(i, j)) =>
            TimesForwarded(i) =
                (IF store[i].ts \div TicksPerSec = store[j].ts \div TicksPerSec THEN 1 ELSE 2)

\* the two rows of one message, stamped one tick apart within a second,
\* forwarded once
C29_Witness ==
    /\ FirstReplayDone /\ pc = "idle"
    /\ \E i, j \in 1..Len(store) :
           /\ SameMessageTwice(i, j)
           /\ store[i].ts < store[j].ts
           /\ store[i].ts \div TicksPerSec = store[j].ts \div TicksPerSec
    /\ Len(HistoryEvents) = 1

\* C30: one step of the walk takes the rows of the window oldest first; the
\* row is skipped when an earlier row of the window has the same author, the
\* same time stamp truncated to an integer second and the same text (so two
\* distinct messages of one author with one text within one second give one
\* event), and is put through the filter in every other case: rows that
\* differ in author, second or text never collapse.
C30_EarliestOfEachKeyConsidered ==
    [][Replay =>
        \A W \in {Window} :
            LET k == Len(W) - Len(rows) + 1
                author(r) == IF r.from_user = "" THEN "?" ELSE r.from_user
                collapses == \E h \in 1..(k - 1) :
                                /\ author(W[h]) = author(W[k])
                                /\ W[h].ts \div TicksPerSec = W[k].ts \div TicksPerSec
                                /\ W[h].text = W[k].text
            IN  /\ k \in 1..Len(W) /\ Head(rows) = W[k]
                /\ \A h \in 1..(Len(W) - 1) : W[h].ts <= W[h + 1].ts
                /\ gui' = IF collapses THEN gui
                                       ELSE gui \o ReplayRow(W[k], group, user)]_vars

\* two messages bob sent with the same text at different moments of the same
\* second were both received and stored; the replay forwarded one event
C30_Witness ==
    /\ FirstReplayDone /\ pc = "idle" /\ Len(store) >= 2
    /\ store[1].direction = "in" /\ store[2].direction = "in"
    /\ store[1].from_user = "bob" /\ store[2].from_user = "bob"
    /\ store[1].grp = group /\ store[2].grp = group
    /\ store[1].text = store[2].text /\ store[1].ts # store[2].ts
    /\ store[1].ts \div TicksPerSec = store[2].ts \div TicksPerSec
    /\ Len(HistoryEvents) = 1

\* ----------------------------------------------- payloads of other peers
\* texts a peer `u` in room `room` can put into an envelope: chats whose
\* `from` is or is not the sender and whose `to` is the room, the local user
\* or the sender; a string that is no JSON; a JSON dict that is neither a
\* presence nor a chat
Note == [_type |-> "note"]

PayloadTexts(u, room) ==
    {Dumps(ChatPayload(f, d, room, Raw("hi"))) :
        f \in {u, "carol"}, d \in {room} \cup LocalUsers \cup {u}}
    \cup {Raw("yo"), Dumps(Note)}

PayloadEnvelopes ==
    UNION {{Envelope(room, u, text, ts) : ts \in 0..MaxClock, text \in PayloadTexts(u, room)} :
            room \in Groups, u \in RemoteUsers}

\* the node after join("alice", "services", "Al", "Li"), its own
\* announcement consumed; commands and datagrams are counted from here
InitPayloads ==
    LET tr   == Started("alice", "services")
        text == Dumps(Enriched(PRESENCE_JOIN, "Al", "Li"))
    IN  /\ user = "alice" /\ group = "services" /\ first_name = "Al" /\ last_name = "Li"
        /\ backend = 1
        /\ online = [u \in {"alice"} |-> [first_name |-> "Al", last_name |-> "Li"]]
        /\ trs = [t \in TIds |-> IF t = 1 THEN tr ELSE Unused]
        /\ ntrs = 1
        /\ store = <<OutRow(0, tr, text)>>
        /\ now = 0
        /\ gui = <<EvJoined("alice", "services", "Al", "Li")>>
        /\ wire = <<Envelope("services", "alice", text, 0)>>
        /\ pc = "idle" /\ ret = "idle" /\ ptext = Raw("") /\ arg = None
        /\ rows = <<>> /\ seen = {}
        /\ cmd = "join" /\ wmark = 0
        /\ ncmd = 0 /\ nremote = 0
        /\ faulty = FALSE /\ flog = <<>>

\* peers send, the node receives live, leaves and joins again, which
\* replays what it stored
NextPayloads ==
    \/ \E t \in TIds, env \in PayloadEnvelopes : RxRecvRemote(t, env)
    \/ \E t \in TIds : RxRecv(t)
    \/ \E t \in TIds : RxCallback(t)
    \/ \E t \in TIds : RxAct(t)
    \/ \E t \in TIds : RxExit(t)
    \/ Leave
    \/ LeaveClose
    \/ \E u \in LocalUsers, g \in Groups, fn \in FirstNames, ln \in LastNames : Join(u, g, fn, ln)
    \/ Select
    \/ Replay
    \/ JoinAnnounce
    \/ JoinAddSelf
    \/ PubSend

SpecPayloads == InitPayloads /\ [][NextPayloads]_vars

\* the row the walk is about to take was not seen in this replay
UnseenRow == rows # <<>> /\ ReplayKey(Head(rows)) \notin seen

\* C31: for a row of the window (a row of the current group) not seen
\* before in the replay: a presence payload forwards nothing; a chat payload
\* is forwarded exactly when its `to` is the current group or the current
\* username, and then with the payload's `from` as author, the payload's `to`
\* as destination and the payload's text.
C31_ReplayFiltersPayloads ==
    [][(Replay /\ UnseenRow) =>
        LET row == Head(rows)
            obj == parse_payload(row.text)
        IN  /\ row.grp = group
            /\ IsPresence(obj) => gui' = gui
            /\ IsChat(obj) =>
                  gui' = IF obj.to = group \/ obj.to = user
                         THEN Append(gui, EvMessage(obj.from, obj.to, obj.text))
                         ELSE gui]_vars

\* bob relayed carol's chat to alice and sent one addressed to himself; both
\* were stored; after leave and join the replay forwarded carol's chat, with
\* carol as author, after the live event, and nothing else
C31_Witness ==
    /\ cmd = "join" /\ ntrs = 2 /\ pc = "idle" /\ Len(store) >= 3
    /\ \E i, j \in 1..Len(store) :
           /\ store[i].direction = "in" /\ store[i].from_user = "bob" /\ store[i].grp = group
           /\ store[i].text = Dumps(ChatPayload("carol", "alice", group, Raw("hi")))
           /\ store[j].direction = "in" /\ store[j].grp = group
           /\ store[j].text = Dumps(ChatPayload("bob", "bob", group, Raw("hi")))
    /\ \E i \in 1..Len(store) : IsPresence(parse_payload(store[i].text)) /\ store[i].grp = group
    /\ SelectSeq(gui, IsMessageEvent)
           = <<EvMessage("carol", "alice", Raw("hi")), EvMessage("carol", "alice", Raw("hi"))>>

\* _parse_payload gives no presence and no chat payload for the text
Undecodable(text) ==
    ~IsPresence(parse_payload(text)) /\ ~IsChat(parse_payload(text))

\* C32: a text that is neither a presence nor a chat payload is forwarded
\* verbatim as a chat to the current group.  Live: the callback forwards it
\* with the envelope's username as author.  Replay: a row not seen before
\* is forwarded with the row's author; a row the dedup key has seen is
\* skipped only after an earlier row of the window with the same author and
\* the same text, whose event is the same, so the text is not lost.
C32_UndecodableTextForwarded ==
    [][ /\ \A t \in TIds :
              (RxCallback(t) /\ Undecodable(trs[t].msg.text)) =>
                  gui' = Append(gui, EvMessage(trs[t].msg.username, group, trs[t].msg.text))
        /\ (Replay /\ Undecodable(Head(rows).text)) =>
              IF UnseenRow
              THEN gui' = Append(gui, EvMessage(Head(rows).from_user, group, Head(rows).text))
              ELSE \A W \in {Window} :
                      \E h \in 1..(Len(W) - Len(rows)) :
                          /\ W[h].from_user = Head(rows).from_user
                          /\ W[h].text = Head(rows).text ]_vars

\* bob sent a text that is no JSON and a dict that is no payload; both were
\* forwarded live, stored, and forwarded again by the replay of the next join
C32_Witness ==
    /\ cmd = "join" /\ ntrs = 2 /\ pc = "idle"
    /\ SelectSeq(gui, IsMessageEvent)
           = <<EvMessage("bob", group, Raw("yo")), EvMessage("bob", group, Dumps(Note)),
               EvMessage("bob", group, Raw("yo")), EvMessage("bob", group, Dumps(Note))>>

\* leave() position by position: what the node has sent since the command
\* was issued and the state of the transport it was joined with
LeavePositions ==
    cmd = "leave" =>
        LET S == Since
        IN  CASE pc = "pub_send" ->
                    /\ S = <<>>
                    /\ trs[backend].sock = "open" /\ ~trs[backend].stop
              [] pc = "l_close" ->
                    /\ Len(S) = 1 /\ IsControl(S[1], PRESENCE_LEAVE, group)
                    /\ trs[backend].room = group
                    /\ trs[backend].sock = "open" /\ ~trs[backend].stop
              [] pc = "idle" ->
                    /\ Len(S) = 1 /\ IsControl(S[1], PRESENCE_LEAVE, group)
                    /\ backend = 0
                    /\ trs[ntrs].room = group
                    /\ trs[ntrs].sock = "closed" /\ trs[ntrs].stop /\ trs[ntrs].db = "closed"

\* C33: leave() issued while joined broadcasts exactly one presence-leave
\* envelope in the current room while the transport is still open, then
\* closes the transport; at its return the node holds no transport and
\* online is empty.
C33_LeaveAnnouncesThenCloses ==
    [][ /\ LeavePositions'
        /\ LeaveClose => (backend' = 0 /\ online' = EmptyDict /\ pc' = "idle"
                          /\ trs'[backend].stop /\ wire' = wire) ]_vars

\* leave() has returned after join(): one presence-leave on the wire, the
\* receive loop of the closed transport has ended
C33_Witness ==
    /\ cmd = "leave" /\ pc = "idle" /\ backend = 0 /\ online = EmptyDict
    /\ Len(Since) = 1 /\ IsControl(Since[1], PRESENCE_LEAVE, group)
    /\ trs[ntrs].sock = "closed" /\ trs[ntrs].rx = "done"

\* join() position by position: the transport it opened and what the node
\* has sent since the command was issued
JoinPositions ==
    cmd = "join" =>
        LET S  == Since
            tr == trs[backend]
        IN  /\ backend = ntrs
            /\ tr.room = group /\ tr.username = user
            /\ tr.sock = "open" /\ tr.nth = 1 /\ ~tr.stop
            /\ CASE pc \in {"j_select", "j_replay"} -> S = <<>>
                 [] pc = "j_pub" \/ (pc = "pub_send" /\ ret = "j_add") ->
                        S = <<>> /\ rows = <<>>
                 [] pc = "j_add" ->
                        Len(S) = 1 /\ IsControl(S[1], PRESENCE_JOIN, group) /\ rows = <<>>
                 [] OTHER -> pc = "idle" /\ Len(S) = 1 /\ IsControl(S[1], PRESENCE_JOIN, group)

\* the step appended a user_joined event for the local user
SurfacesLocalJoin ==
    /\ Len(gui') > Len(gui)
    /\ \E k \in (Len(gui) + 1)..Len(gui') :
           gui'[k].type = "user_joined" /\ gui'[k].user = user'

\* C34: join() while not joined opens and starts the transport; nothing is
\* broadcast until the replay has finished; then exactly one presence-join
\* with the first and last name is broadcast in room = group; then the
\* local user is added to online and exactly one user_joined event for the
\* local user is surfaced, by join() itself and by nothing else; the node
\* ends joined.
C34_JoinAnnouncesAfterReplay ==
    [][ /\ JoinPositions'
        /\ JoinAddSelf =>
              /\ gui' = Append(gui, EvJoined(user, group, first_name, last_name))
              /\ user \in DOMAIN online' /\ online'[user] = Names(first_name, last_name)
              /\ backend' # 0 /\ pc' = "idle" /\ wire' = wire
        /\ SurfacesLocalJoin => JoinAddSelf ]_vars

\* join() returned after a replay that forwarded history: the presence-join
\* is the only datagram sent, the local user_joined the last event
C34_Witness ==
    /\ cmd = "join" /\ pc = "idle" /\ ntrs = 2
    /\ Len(Since) = 1 /\ IsControl(Since[1], PRESENCE_JOIN, group)
    /\ Len(gui) >= 3
    /\ gui[Len(gui)] = EvJoined(user, group, first_name, last_name)
    /\ gui[Len(gui) - 1].type = "message_received"
    /\ user \in DOMAIN online

\* the presence envelope the receive thread of t is handling contradicts
\* online: a join of a remote user who is in it, a leave of one who is not
Inconsistent(t) ==
    LET u   == trs[t].msg.username
        act == Get(LiveObj(t), "action", None)
    IN  /\ IsPresence(LiveObj(t)) /\ u # user
        /\ \/ act = "join" /\ u \in DOMAIN online
           \/ act = "leave" /\ u \notin DOMAIN online

\* C35: a presence-join for a user already in online and a presence-leave
\* for a user not in online leave online as it is, stored names included,
\* and forward no event to the consumer.
C35_InconsistentPresenceDropped ==
    [][\A t \in TIds : (LiveStep(t) /\ Inconsistent(t)) => (online' = online /\ gui' = gui)]_vars

\* C36: once close() has returned on a transport, its receive loop makes
\* no further step of the on_message callback and writes no further row;
\* so no envelope of the old group is classified against the session of the
\* new group or added to the new online map.
C36_NoCallbackAfterClose ==
    [][\A t \in TIds : trs[t].stop =>
          /\ ~LiveStep(t)
          /\ ~(RxRecv(t) /\ store' # store)]_vars

\* C37: a chat envelope of a room other than the receiver's current group
\* is never stored by the receiver and never forwarded to its consumer,
\* whatever its `to`: direct messages do not cross rooms.
C37_ChatStaysInItsRoom ==
    [][ /\ \A t \in TIds, env \in RemoteEnvelopes :
              (RxRecvRemote(t, env) /\ IsChat(parse_payload(env.text)) /\ env.room # group)
                  => store' = store
        /\ \A t \in TIds :
              (RxCallback(t) /\ IsChat(LiveObj(t)) /\ trs[t].msg.room # group)
                  => gui' = gui ]_vars

\* the node is Joined and no command is running: the step belongs to the
\* session that the last join or group change began
InSession == backend # 0 /\ pc = "idle" /\ pc' = "idle"

\* the step forwarded the event e to the consumer
Forwards(e) == gui' = Append(gui, e)

\* C38: within a session the user_joined(u) and user_left(u) events of a
\* remote user u alternate, beginning with user_joined(u).  online is empty
\* when the session begins and records which of the two came last: a
\* user_joined(u) is forwarded only while u is not in online and puts u in, a
\* user_left(u) only while u is in online and takes u out, and nothing else
\* moves u in or out during the session.
C38_JoinedAndLeftAlternate ==
    [][InSession =>
        \A u \in RemoteUsers :
            /\ (\E g \in Groups \cup {""}, fn, ln \in {"", "Bo"} : Forwards(EvJoined(u, g, fn, ln)))
                  => (u \notin DOMAIN online /\ u \in DOMAIN online')
            /\ Forwards(EvLeft(u))
                  => (u \in DOMAIN online /\ u \notin DOMAIN online')
            /\ (u \in DOMAIN online) # (u \in DOMAIN online')
                  => \/ Forwards(EvLeft(u))
                     \/ \E g \in Groups \cup {""}, fn, ln \in {"", "Bo"} :
                            Forwards(EvJoined(u, g, fn, ln)) ]_vars

\* =========================================== src/MultiprocessingTest.py
\* The dining philosophers program is a second program of the repository.
\* Its state is kept in three of the module's variables, under the names the
\* program uses; the other variables stay as Init leaves them.
forks        == online    \* main() line 57: the semaphores, by index
philosophers == trs       \* the Philosopher threads, by index
main         == pc        \* the main thread: "sleep" (line 65) or "finishing"

NForks   == 5             \* main() line 57
MaxMeals == 2             \* calls of dine() per philosopher

\* main() lines 60-61: range(0, 5, 2)
Indexes == {0, 2, 4}

\* main() line 60: Philosopher(i, forks[i%5], forks[(i+1)%5])
forkOnLeft(i)  == i % NForks
forkOnRight(i) == (i + 1) % NForks

\* dine() lines 32-37
fork1(i) == IF i % 2 = 0 THEN forkOnRight(i) ELSE forkOnLeft(i)
fork2(i) == IF i % 2 = 0 THEN forkOnLeft(i) ELSE forkOnRight(i)

\* Philosopher.running (lines 8, 63, 66)
running == main = "sleep"

\* mutant: acquire does not count the semaphore down
acquireKeepsCount(sems, f) == sems

\* Semaphore.acquire / release on the list of semaphores
acquire(sems, f) == [sems EXCEPT ![f] = @ - 1]
release(sems, f) == [sems EXCEPT ![f] = @ + 1]

\* mutant: the second acquire waits for a taken fork like the first
WaitsIfTaken(v) == v = 0

\* line 41, acquire(False): the call returns at once whatever the counter
Waits(v) == FALSE

\* a thread about to call dine() for the first time, holding nothing
Hungry == [at |-> "hungry", held |-> {}, meals |-> 0]

\* dine() under concurrent callers: every philosopher as lines 12-13 and
\* 20-21 set it up over the forks of main(), its thread at the call of
\* dine() (line 28).  As shipped the program does not get there: line 16
\* reads self.forkOnRight before line 21 has set it (AttributeError in the
\* constructor), and run() calls time.sleep() without an argument (line 26).
InitDine ==
    /\ user = None /\ group = None /\ first_name = "" /\ last_name = ""
    /\ backend = 0
    /\ forks = [f \in 0..(NForks - 1) |-> 1]
    /\ philosophers = [i \in Indexes |-> Hungry]
    /\ ntrs = 0
    /\ store = <<>>
    /\ now = 0
    /\ gui = <<>>
    /\ wire = <<>>
    /\ main = "sleep" /\ ret = "idle" /\ ptext = Raw("") /\ arg = None
    /\ rows = <<>> /\ seen = {}
    /\ cmd = "none" /\ wmark = 0
    /\ ncmd = 0 /\ nremote = 0
    /\ faulty = FALSE /\ flog = <<>>

\* what no step of the dining program touches
chat == <<user, group, first_name, last_name, backend, ntrs, store, now, gui, wire,
          ret, ptext, arg, rows, seen, cmd, wmark, ncmd, nremote, faulty, flog>>

\* run() line 28: dine() is called
Dine(i) ==
    /\ philosophers[i].at = "hungry" /\ philosophers[i].meals < MaxMeals
    /\ philosophers' = [philosophers EXCEPT ![i].at = "test", ![i].meals = @ + 1]
    /\ UNCHANGED <<forks, main, chat>>

\* dine() line 38: `if self.running`, else return
TestRunning(i) ==
    /\ philosophers[i].at = "test"
    /\ philosophers' = [philosophers EXCEPT ![i].at = IF running THEN "acquire1" ELSE "hungry"]
    /\ UNCHANGED <<forks, main, chat>>

\* dine() line 40: fork1.acquire() waits until the semaphore is free
Acquire1(i) ==
    /\ philosophers[i].at = "acquire1"
    /\ forks[fork1(i)] > 0
    /\ forks' = acquire(forks, fork1(i))
    /\ philosophers' = [philosophers EXCEPT ![i].at = "acquire2", ![i].held = @ \cup {fork1(i)}]
    /\ UNCHANGED <<main, chat>>

\* dine() lines 41-42: locked = fork2.acquire(False); if locked: break
Acquire2(i) ==
    /\ philosophers[i].at = "acquire2"
    /\ ~Waits(forks[fork2(i)])
    /\ IF forks[fork2(i)] > 0
       THEN /\ forks' = acquire(forks, fork2(i))
            /\ philosophers' = [philosophers EXCEPT ![i].at = "dining",
                                                     ![i].held = @ \cup {fork2(i)}]
       ELSE /\ forks' = forks
            /\ philosophers' = [philosophers EXCEPT ![i].at = "release1"]
    /\ UNCHANGED <<main, chat>>

\* dine() line 43: fork1.release(), and round the loop
Release1(i) ==
    /\ philosophers[i].at = "release1"
    /\ forks' = release(forks, fork1(i))
    /\ philosophers' = [philosophers EXCEPT ![i].at = "acquire1", ![i].held = @ \ {fork1(i)}]
    /\ UNCHANGED <<main, chat>>

\* dine() line 46: dining() returns
Dining(i) ==
    /\ philosophers[i].at = "dining"
    /\ philosophers' = [philosophers EXCEPT ![i].at = "done"]
    /\ UNCHANGED <<forks, main, chat>>

\* dine() line 48: fork2.release()
ReleaseSecond(i) ==
    /\ philosophers[i].at = "done"
    /\ forks' = release(forks, fork2(i))
    /\ philosophers' = [philosophers EXCEPT ![i].at = "last", ![i].held = @ \ {fork2(i)}]
    /\ UNCHANGED <<main, chat>>

\* dine() line 49: fork1.release(), and dine() returns
ReleaseFirst(i) ==
    /\ philosophers[i].at = "last"
    /\ forks' = release(forks, fork1(i))
    /\ philosophers' = [philosophers EXCEPT ![i].at = "hungry", ![i].held = @ \ {fork1(i)}]
    /\ UNCHANGED <<main, chat>>

\* main() lines 65-66: Philosopher.running = False
Finish ==
    /\ main = "sleep"
    /\ main' = "finishing"
    /\ UNCHANGED <<forks, philosophers, chat>>

NextDine ==
    \/ \E i \in Indexes : Dine(i)
    \/ \E i \in Indexes : TestRunning(i)
    \/ \E i \in Indexes : Acquire1(i)
    \/ \E i \in Indexes : Acquire2(i)
    \/ \E i \in Indexes : Release1(i)
    \/ \E i \in Indexes : Dining(i)
    \/ \E i \in Indexes : ReleaseSecond(i)
    \/ \E i \in Indexes : ReleaseFirst(i)
    \/ Finish

SpecDine == InitDine /\ [][NextDine]_vars

\* the philosophers holding fork f
Holders(f) == {i \in Indexes : f \in philosophers[i].held}

Waiting(i) ==
    /\ philosophers[i].at \in {"acquire1", "acquire2"}
    /\ ~ENABLED (Acquire1(i) \/ Acquire2(i))

====
